---- MODULE Spec2Model ----
(***************************************************************************)
(* Model of pixelator.py: the pixelation pipeline pixelate_image and the   *)
(* edge distresser apply_distress_to_small_image.                          *)
(*                                                                         *)
(* An image is a record [mode, size, transparency, px].  size is <<w, h>>, *)
(* px maps <<x, y>> to the tuple of the pixel's bands (RGB: <<r,g,b>>,     *)
(* RGBA: <<r,g,b,a>>, L: <<l>>, LA: <<l,a>>, P: <<index>>), transparency   *)
(* is the optional info['transparency'] entry (<<>> when absent).          *)
(* Optional values (None) are sequences of length 0 or 1.                  *)
(*                                                                         *)
(* Two specifications:                                                     *)
(*   Spec          one call of pixelate_image, one action per stage;       *)
(*   SpecDistress  one call of apply_distress_to_small_image on an image   *)
(*                 held by the caller (images live in a heap of objects so *)
(*                 that aliasing and in-place mutation are visible).       *)
(***************************************************************************)
EXTENDS Integers, Sequences, FiniteSets

VARIABLES
    \* ---- pixelate_image -------------------------------------------------
    pixel_size,           \* argument pixel_size
    color_count,          \* argument color_count: <<>> is None, <<n>> an int
    distress_intensity,   \* argument distress_intensity
    file,                 \* the image stored at input_path
    pc,                   \* position in pixelate_image
    opened,               \* Image.open(input_path) has been called
    img,                  \* local img
    original_size,        \* local original_size
    original_has_alpha,   \* local original_has_alpha
    current_mode,         \* local current_mode
    small_img_base,       \* local small_img_base
    processed_small_img,  \* local processed_small_img
    final_small_img,      \* local final_small_img
    distress_state,       \* "none", or "skipped" / "applied" once the distresser was called
    xintab,               \* source column sampled for each output column
    yintab,               \* source row sampled for each output row
    pixelated_img,        \* local pixelated_img
    output,               \* the image written at output_path, <<>> if none
    stages,               \* the stages performed so far, in order
    \* ---- apply_distress_to_small_image called on its own ------------------
    d_pc,                 \* "call" before the call, "returned" after it
    d_heap,               \* the image objects, indexed by reference
    d_arg,                \* reference passed as small_img
    d_ret,                \* reference returned, 0 before the return
    d_before,             \* value of the argument image when the call began
    d_intensity,          \* argument intensity_percent
    d_decay,              \* argument decay_rate, a fraction <<num, den>>
    d_seed                \* state of the random generator at the call

pvars == <<pixel_size, color_count, distress_intensity, file, pc, opened, img,
           original_size, original_has_alpha, current_mode, small_img_base,
           processed_small_img, final_small_img, distress_state, xintab,
           yintab, pixelated_img, output, stages>>

dvars == <<d_pc, d_heap, d_arg, d_ret, d_before, d_intensity, d_decay, d_seed>>

vars == <<pvars, dvars>>

----------------------------------------------------------------------------
(* Bounds of the model *)

MaxWidth == 7
MaxHeight == 3
MaxPixelSize == 3
MaxPattern == 1
MaxSeed == 2
MaxGrid == 5
DrawDen == 100

PixelSizes == -1 .. MaxPixelSize
Patterns == 0 .. MaxPattern
Widths == 1 .. MaxWidth
Heights == 1 .. MaxHeight
GridSizes == (1 .. MaxGrid) \X (1 .. MaxGrid)
ColorCounts == {<<>>, <<0>>, <<2>>, <<300>>}
DistressIntensities == {0, 50, 100, 150}
InputModes == {"RGB", "RGBA", "L", "LA", "P"}
Seeds == 0 .. MaxSeed
Quantizers == {0, 1}
DecayRates == {<<0, 1>>, <<1, 4>>, <<13, 20>>, <<1, 1>>, <<3, 2>>, <<-1, 2>>}
CallIntensities == {-5, 0, 1, 50, 100, 101, 150}

----------------------------------------------------------------------------
(* Arithmetic helpers *)

Max(a, b) == IF a >= b THEN a ELSE b

Min(a, b) == IF a <= b THEN a ELSE b

RECURSIVE Pow(_, _)
Pow(b, e) == IF e = 0 THEN 1 ELSE b * Pow(b, e - 1)

RECURSIVE SumOver(_, _)
SumOver(f, S) ==
    IF S = {} THEN 0
    ELSE LET s == CHOOSE t \in S : TRUE IN f[s] + SumOver(f, S \ {s})

----------------------------------------------------------------------------
(* Images *)

Coords(size) == (0 .. size[1] - 1) \X (0 .. size[2] - 1)

NoImage == [mode |-> "none", size |-> <<0, 0>>, transparency |-> <<>>, px |-> <<>>]

Alpha(image, c) == image.px[c][Len(image.px[c])]

Colour(image, c) == <<image.px[c][1], image.px[c][2], image.px[c][3]>>

\* The palette of a P image.
Palette(i) == <<(i * 60) % 256, 255 - ((i * 60) % 256), (i * 100) % 256>>

\* The images the input file may hold: a gradient whose bands differ from
\* pixel to pixel, with an opacity band that is not constant.
InputBand(x, y, b, k) == (x * 50 + y * 80 + b * 30 + k * 100) % 256

InputAlpha(x, y, k) == ((x + 2 * y + k) % 3) * 120

InputPixel(mode, x, y, k) ==
    CASE mode = "RGB"  -> <<InputBand(x, y, 0, k), InputBand(x, y, 1, k), InputBand(x, y, 2, k)>>
      [] mode = "RGBA" -> <<InputBand(x, y, 0, k), InputBand(x, y, 1, k), InputBand(x, y, 2, k),
                            InputAlpha(x, y, k)>>
      [] mode = "L"    -> <<InputBand(x, y, 0, k)>>
      [] mode = "LA"   -> <<InputBand(x, y, 0, k), InputAlpha(x, y, k)>>
      [] mode = "P"    -> <<(x + y + k) % 4>>

InputImage(mode, transparency, w, h, k) ==
    [mode |-> mode, size |-> <<w, h>>, transparency |-> transparency,
     px |-> [c \in Coords(<<w, h>>) |-> InputPixel(mode, c[1], c[2], k)]]

\* Image.convert(target) for target in {"RGB", "RGBA"}.
ConvertPixel(mode, transparency, p, target) ==
    LET rgb == CASE mode \in {"RGB", "RGBA"} -> <<p[1], p[2], p[3]>>
                 [] mode \in {"L", "LA"}     -> <<p[1], p[1], p[1]>>
                 [] mode = "P"               -> Palette(p[1])
        a   == CASE mode \in {"RGBA", "LA"}  -> p[Len(p)]
                 [] mode = "P" /\ transparency # <<>> /\ transparency[1] = p[1] -> 0
                 [] OTHER -> 255
    IN IF target = "RGBA" THEN Append(rgb, a) ELSE rgb

convert(image, target) ==
    [mode |-> target, size |-> image.size, transparency |-> <<>>,
     px |-> [c \in Coords(image.size) |->
                ConvertPixel(image.mode, image.transparency, image.px[c], target)]]

----------------------------------------------------------------------------
(* Image.resize with the LANCZOS filter (downscale).  The filter is a     *)
(* weighted average of the source pixels under each output pixel, applied *)
(* to each band on its own; an RGBA image is resampled with its colour    *)
(* bands premultiplied by the opacity band.  The weights used here are    *)
(* uniform over the footprint.                                            *)

Footprint(i, nin, nout) ==
    {s \in 0 .. nin - 1 : s * nout >= i * nin /\ s * nout < (i + 1) * nin}

FootprintOf(c, insize, outsize) ==
    Footprint(c[1], insize[1], outsize[1]) \X Footprint(c[2], insize[2], outsize[2])

\* One band, given as a function of the coordinates, resampled to outsize.
ResampleBand(band, insize, outsize) ==
    [c \in Coords(outsize) |->
        LET F == FootprintOf(c, insize, outsize)
        IN SumOver(band, F) \div Cardinality(F)]

Premultiply(v, a) == (v * a) \div 255

Unpremultiply(v, a) == IF a = 0 THEN v ELSE Min(255, (v * 255) \div a)

resize_LANCZOS(image, outsize) ==
    IF image.size = outsize THEN image
    ELSE LET n == Len(image.px[<<0, 0>>])
             hasA == image.mode = "RGBA"
             A == ResampleBand([c \in Coords(image.size) |-> image.px[c][n]],
                               image.size, outsize)
             B(b) == ResampleBand(
                        [c \in Coords(image.size) |->
                            IF hasA THEN Premultiply(image.px[c][b], image.px[c][n])
                            ELSE image.px[c][b]],
                        image.size, outsize)
             B1 == B(1)
             B2 == B(2)
             B3 == B(3)
         IN [mode |-> image.mode, size |-> outsize, transparency |-> image.transparency,
             px |-> [c \in Coords(outsize) |->
                        IF hasA
                        THEN <<Unpremultiply(B1[c], A[c]), Unpremultiply(B2[c], A[c]),
                               Unpremultiply(B3[c], A[c]), A[c]>>
                        ELSE <<B1[c], B2[c], B3[c]>>]]

----------------------------------------------------------------------------
(* Image.resize with the NEAREST filter (upscale).  Output column x       *)
(* samples the source column under its centre, (x + 1/2) * nin / nout,    *)
(* which the library accumulates in floating point and truncates: when    *)
(* the centre falls exactly on the boundary between two source columns    *)
(* the rounding of the accumulation decides which of the two is taken.    *)

NearestCentre2(x, nin) == (2 * x + 1) * nin

\* Variant: the right edge of the output column is sampled, not its centre.
NearestIndexExact_NoCentre(x, nin, nout) ==
    Min(nin - 1, ((2 * x + 2) * nin) \div (2 * nout))

NearestIndexExact(x, nin, nout) == NearestCentre2(x, nin) \div (2 * nout)

NearestIsTie(x, nin, nout) == NearestCentre2(x, nin) % (2 * nout) = 0

NearestTies(nin, nout) == {x \in 0 .. nout - 1 : NearestIsTie(x, nin, nout)}

NearestTables(nin, nout) ==
    {[x \in 0 .. nout - 1 |->
        NearestIndexExact(x, nin, nout) - (IF x \in low THEN 1 ELSE 0)] :
     low \in SUBSET NearestTies(nin, nout)}

resize_NEAREST(image, outsize, xt, yt) ==
    [mode |-> image.mode, size |-> outsize, transparency |-> image.transparency,
     px |-> [c \in Coords(outsize) |-> image.px[<<xt[c[1]], yt[c[2]]>>]]]

----------------------------------------------------------------------------
(* Image.quantize(colors, MEDIANCUT).convert('RGB') on an RGB image: every *)
(* pixel is replaced by the representative of its bucket, at most colors   *)
(* representatives in all.  q selects how the representatives are chosen.  *)
(* The library raises ValueError unless 1 <= colors <= 256.                *)

QuantizeColour(p, colors, q) ==
    LET b == ((p[1] + p[2] + p[3]) * colors) \div 768
        g == ((2 * b + 1) * 255) \div (2 * colors)
    IN IF q = 0 THEN <<g, g, g>> ELSE <<g, 255 - g, b % 256>>

quantize(image, colors, q) ==
    [mode |-> "RGB", size |-> image.size, transparency |-> <<>>,
     px |-> [c \in Coords(image.size) |-> QuantizeColour(image.px[c], colors, q)]]

QuantizeRaises(colors) == ~(1 <= colors /\ colors <= 256)

\* Variant: the quantized copy is made RGBA without the saved opacity band.
putalpha_Opaque(image, alphaSource) ==
    [mode |-> "RGBA", size |-> image.size, transparency |-> <<>>,
     px |-> [c \in Coords(image.size) |->
                <<image.px[c][1], image.px[c][2], image.px[c][3], 255>>]]

\* Image.getchannel('A') followed, on the quantized copy, by putalpha(alpha).
putalpha(image, alphaSource) ==
    [mode |-> "RGBA", size |-> image.size, transparency |-> <<>>,
     px |-> [c \in Coords(image.size) |->
                <<image.px[c][1], image.px[c][2], image.px[c][3], Alpha(alphaSource, c)>>]]

\* Lines 133-145: the palette reduction of the small image.
QuantizeSmall(small, colors, q) ==
    IF small.mode = "RGBA"
    THEN putalpha(quantize(convert(small, "RGB"), colors, q), small)
    ELSE quantize(IF small.mode # "RGB" THEN convert(small, "RGB") ELSE small, colors, q)

----------------------------------------------------------------------------
(* apply_distress_to_small_image *)

DefaultDecay == <<13, 20>>

IntensityInRange(intensity) == 0 < intensity /\ intensity <= 100

\* Line 39: 0 < decay_rate <= 1.0, for decay_rate = num / den with den > 0.
DecayInRange(decay) == 0 < decay[1] /\ decay[1] <= decay[2]

\* Variant: the decay rate is used as given.
EffectiveDecay_NoClamp(decay) == decay

EffectiveDecay(decay) == IF ~DecayInRange(decay) THEN DefaultDecay ELSE decay

\* Lines 52-54.
DistanceFromEdge(bx, by, grid_width, grid_height) ==
    LET dist_x == Min(bx, grid_width - 1 - bx)
        dist_y == Min(by, grid_height - 1 - by)
    IN Min(dist_x, dist_y)

\* Lines 46 and 57: (intensity_percent / 100.0) * decay_rate ** distance, as
\* the fraction <<numerator, denominator>>.
AdjustedProbability(intensity, decay, distance) ==
    <<intensity * Pow(decay[1], distance), 100 * Pow(decay[2], distance)>>

\* random.random(): the k-th value drawn from the generator in state seed,
\* in units of 1 / DrawDen; always in [0, 1).
Draw(seed, k) == (seed * 37 + k * 61) % DrawDen

\* Line 60: random.random() < adjusted_probability.
DrawBelow(draw, prob) == draw * prob[2] < prob[1] * DrawDen

\* Lines 49-65: the loop over the pixels, row by row, one draw per pixel.
Chipped(c, size, intensity, decay, seed) ==
    DrawBelow(Draw(seed, c[2] * size[1] + c[1]),
              AdjustedProbability(intensity, decay,
                                  DistanceFromEdge(c[1], c[2], size[1], size[2])))

\* Variant: a chipped pixel loses its colour as well.
ChipPixel_Black(current_pixel) == <<0, 0, 0, 0>>

ChipPixel(current_pixel) == <<current_pixel[1], current_pixel[2], current_pixel[3], 0>>

DistressLoop(image, intensity, decay, seed) ==
    [image EXCEPT !.px =
        [c \in Coords(image.size) |->
            IF Chipped(c, image.size, intensity, decay, seed)
            THEN ChipPixel(image.px[c])
            ELSE image.px[c]]]

\* Variant: an image that is already RGBA is worked on in place.
PrepareRGBA_NoCopy(heap, ref) ==
    IF heap[ref].mode # "RGBA"
    THEN [heap |-> Append(heap, convert(heap[ref], "RGBA")), ret |-> Len(heap) + 1]
    ELSE [heap |-> heap, ret |-> ref]

\* Lines 31-36: the image the loop works on is a new object, obtained by
\* convert('RGBA') or by copy().  A call result is [heap, ret].
PrepareRGBA(heap, ref) ==
    IF heap[ref].mode # "RGBA"
    THEN [heap |-> Append(heap, convert(heap[ref], "RGBA")), ret |-> Len(heap) + 1]
    ELSE [heap |-> Append(heap, heap[ref]), ret |-> Len(heap) + 1]

apply_distress_to_small_image(heap, ref, intensity_percent, decay_rate, seed) ==
    IF ~IntensityInRange(intensity_percent)
    THEN [heap |-> heap, ret |-> ref]
    ELSE LET w == PrepareRGBA(heap, ref)
             decay == EffectiveDecay(decay_rate)
         IN [heap |-> [w.heap EXCEPT ![w.ret] =
                          DistressLoop(@, intensity_percent, decay, seed)],
             ret |-> w.ret]

----------------------------------------------------------------------------
(* pixelate_image, one action per stage *)

OptInt(o) == o[1]

DistressIdle ==
    /\ d_pc = "idle" /\ d_heap = <<>> /\ d_arg = 0 /\ d_ret = 0
    /\ d_before = NoImage /\ d_intensity = 0 /\ d_decay = DefaultDecay /\ d_seed = 0

Init ==
    /\ pixel_size \in PixelSizes
    /\ color_count \in ColorCounts
    /\ distress_intensity \in DistressIntensities
    /\ \E mode \in InputModes, w \in Widths, h \in Heights, k \in Patterns :
         \E t \in (IF mode = "P" THEN {<<>>, <<0>>} ELSE {<<>>}) :
            file = InputImage(mode, t, w, h, k)
    /\ pc = "validate"
    /\ opened = FALSE
    /\ img = NoImage
    /\ original_size = <<0, 0>>
    /\ original_has_alpha = FALSE
    /\ current_mode = "none"
    /\ small_img_base = NoImage
    /\ processed_small_img = NoImage
    /\ final_small_img = NoImage
    /\ distress_state = "none"
    /\ xintab = <<>>
    /\ yintab = <<>>
    /\ pixelated_img = NoImage
    /\ output = <<>>
    /\ stages = <<>>
    /\ DistressIdle

\* Variant: only a negative pixel size ends the call.
Validate_ZeroAccepted ==
    /\ pc = "validate"
    /\ pc' = IF pixel_size < 0 THEN "rejected" ELSE "open"
    /\ UNCHANGED <<pixel_size, color_count, distress_intensity, file, opened, img,
                   original_size, original_has_alpha, current_mode, small_img_base,
                   processed_small_img, final_small_img, distress_state, xintab,
                   yintab, pixelated_img, output, stages, dvars>>

\* Lines 86-88: a pixel size that is not positive ends the call.
Validate ==
    /\ pc = "validate"
    /\ pc' = IF pixel_size <= 0 THEN "rejected" ELSE "open"
    /\ UNCHANGED <<pixel_size, color_count, distress_intensity, file, opened, img,
                   original_size, original_has_alpha, current_mode, small_img_base,
                   processed_small_img, final_small_img, distress_state, xintab,
                   yintab, pixelated_img, output, stages, dvars>>

\* Lines 96-98.
Open ==
    /\ pc = "open"
    /\ opened' = TRUE
    /\ img' = file
    /\ original_size' = file.size
    /\ stages' = Append(stages, "Loaded")
    /\ pc' = "classify"
    /\ UNCHANGED <<pixel_size, color_count, distress_intensity, file,
                   original_has_alpha, current_mode, small_img_base,
                   processed_small_img, final_small_img, distress_state, xintab,
                   yintab, pixelated_img, output, dvars>>

\* Lines 96 and 178-184: the file is missing or cannot be decoded.
OpenFails ==
    /\ pc = "open"
    /\ opened' = TRUE
    /\ pc' = "failed"
    /\ UNCHANGED <<pixel_size, color_count, distress_intensity, file, img,
                   original_size, original_has_alpha, current_mode, small_img_base,
                   processed_small_img, final_small_img, distress_state, xintab,
                   yintab, pixelated_img, output, stages, dvars>>

\* Lines 100-101.
HasAlpha(image) ==
    \/ image.mode \in {"RGBA", "LA"}
    \/ image.mode = "P" /\ image.transparency # <<>>

\* Lines 100-119.
ClassifyAlpha ==
    /\ pc = "classify"
    /\ original_has_alpha' = HasAlpha(img)
    /\ IF HasAlpha(img)
       THEN /\ img' = convert(img, "RGBA")
            /\ current_mode' = "RGBA"
       ELSE /\ img' = IF img.mode # "RGB" THEN convert(img, "RGB") ELSE img
            /\ current_mode' = "RGB"
    /\ stages' = Append(stages, "AlphaClassified")
    /\ pc' = "downscale"
    /\ UNCHANGED <<pixel_size, color_count, distress_intensity, file, opened,
                   original_size, small_img_base, processed_small_img,
                   final_small_img, distress_state, xintab, yintab, pixelated_img,
                   output, dvars>>

\* Variant: the small size is rounded up.
SmallSize_Ceil(size, p) ==
    <<Max(1, (size[1] + p - 1) \div p), Max(1, (size[2] + p - 1) \div p)>>

\* Lines 123-124.
SmallSize(size, p) == <<Max(1, size[1] \div p), Max(1, size[2] \div p)>>

\* Lines 122-125; the division raises for a zero pixel size (lines 181-184).
Downscale ==
    /\ pc = "downscale"
    /\ IF pixel_size = 0
       THEN /\ pc' = "failed"
            /\ UNCHANGED <<small_img_base, stages>>
       ELSE /\ small_img_base' = resize_LANCZOS(img, SmallSize(original_size, pixel_size))
            /\ stages' = Append(stages, "Downscaled")
            /\ pc' = "quantize"
    /\ UNCHANGED <<pixel_size, color_count, distress_intensity, file, opened, img,
                   original_size, original_has_alpha, current_mode,
                   processed_small_img, final_small_img, distress_state, xintab,
                   yintab, pixelated_img, output, dvars>>

\* Line 131.
QuantizeRequested == color_count # <<>> /\ OptInt(color_count) > 0

\* Lines 130-145, with quantization.
QuantizeColors ==
    /\ pc = "quantize"
    /\ QuantizeRequested
    /\ ~QuantizeRaises(OptInt(color_count))
    /\ \E q \in Quantizers :
         processed_small_img' = QuantizeSmall(small_img_base, OptInt(color_count), q)
    /\ stages' = Append(stages, "PaletteReduced")
    /\ pc' = "distress"
    /\ UNCHANGED <<pixel_size, color_count, distress_intensity, file, opened, img,
                   original_size, original_has_alpha, current_mode, small_img_base,
                   final_small_img, distress_state, xintab, yintab, pixelated_img,
                   output, dvars>>

\* Lines 137/144 and 181-184: quantize raises, the call ends without saving.
QuantizeFails ==
    /\ pc = "quantize"
    /\ QuantizeRequested
    /\ QuantizeRaises(OptInt(color_count))
    /\ pc' = "failed"
    /\ UNCHANGED <<pixel_size, color_count, distress_intensity, file, opened, img,
                   original_size, original_has_alpha, current_mode, small_img_base,
                   processed_small_img, final_small_img, distress_state, xintab,
                   yintab, pixelated_img, output, stages, dvars>>

\* Lines 130-131, without quantization.
SkipQuantize ==
    /\ pc = "quantize"
    /\ ~QuantizeRequested
    /\ processed_small_img' = small_img_base
    /\ pc' = "distress"
    /\ UNCHANGED <<pixel_size, color_count, distress_intensity, file, opened, img,
                   original_size, original_has_alpha, current_mode, small_img_base,
                   final_small_img, distress_state, xintab, yintab, pixelated_img,
                   output, stages, dvars>>

\* Variant: distress is run whether or not the original had an opacity channel.
DistressRequested_AnyInput == distress_intensity > 0

\* Line 153.
DistressRequested == distress_intensity > 0 /\ ~original_has_alpha

\* Variant: the distresser is handed the downscaled image, not the reduced one.
DistressEdges_OnBase ==
    /\ pc = "distress"
    /\ distress_intensity > 0 /\ ~original_has_alpha
    /\ \E seed \in Seeds :
         LET r == apply_distress_to_small_image(<<small_img_base>>, 1,
                                                distress_intensity, DefaultDecay, seed)
         IN /\ final_small_img' = r.heap[r.ret]
            /\ distress_state' = IF r.ret = 1 THEN "skipped" ELSE "applied"
    /\ current_mode' = "RGBA"
    /\ stages' = Append(stages, "Distressed")
    /\ pc' = "upscale"
    /\ UNCHANGED <<pixel_size, color_count, distress_intensity, file, opened, img,
                   original_size, original_has_alpha, small_img_base,
                   processed_small_img, xintab, yintab, pixelated_img, output, dvars>>

\* Lines 152-155: processed_small_img is passed by reference (object 1).
DistressEdges ==
    /\ pc = "distress"
    /\ DistressRequested
    /\ \E seed \in Seeds :
         LET r == apply_distress_to_small_image(<<processed_small_img>>, 1,
                                                distress_intensity, DefaultDecay, seed)
         IN /\ final_small_img' = r.heap[r.ret]
            /\ processed_small_img' = r.heap[1]
            /\ distress_state' = IF r.ret = 1 THEN "skipped" ELSE "applied"
    /\ current_mode' = "RGBA"
    /\ stages' = Append(stages, "Distressed")
    /\ pc' = "upscale"
    /\ UNCHANGED <<pixel_size, color_count, distress_intensity, file, opened, img,
                   original_size, original_has_alpha, small_img_base, xintab, yintab,
                   pixelated_img, output, dvars>>

\* Lines 152 and 156-157.
SkipDistress ==
    /\ pc = "distress"
    /\ ~DistressRequested
    /\ final_small_img' = processed_small_img
    /\ pc' = "upscale"
    /\ UNCHANGED <<pixel_size, color_count, distress_intensity, file, opened, img,
                   original_size, original_has_alpha, current_mode, small_img_base,
                   processed_small_img, distress_state, xintab, yintab,
                   pixelated_img, output, stages, dvars>>

\* Line 162.
Upscale ==
    /\ pc = "upscale"
    /\ \E xt \in NearestTables(final_small_img.size[1], original_size[1]),
          yt \in NearestTables(final_small_img.size[2], original_size[2]) :
         /\ xintab' = xt
         /\ yintab' = yt
         /\ pixelated_img' = resize_NEAREST(final_small_img, original_size, xt, yt)
    /\ stages' = Append(stages, "Upscaled")
    /\ pc' = "finalize"
    /\ UNCHANGED <<pixel_size, color_count, distress_intensity, file, opened, img,
                   original_size, original_has_alpha, current_mode, small_img_base,
                   processed_small_img, final_small_img, distress_state, output,
                   dvars>>

\* Lines 165-170.
FinalMode(image, mode) ==
    IF mode = "RGBA" /\ image.mode # "RGBA" THEN convert(image, "RGBA")
    ELSE IF mode = "RGB" /\ image.mode # "RGB" THEN convert(image, "RGB")
    ELSE image

FinalizeMode ==
    /\ pc = "finalize"
    /\ pixelated_img' = FinalMode(pixelated_img, current_mode)
    /\ stages' = Append(stages, "ModeFinalized")
    /\ pc' = "save"
    /\ UNCHANGED <<pixel_size, color_count, distress_intensity, file, opened, img,
                   original_size, original_has_alpha, current_mode, small_img_base,
                   processed_small_img, final_small_img, distress_state, xintab,
                   yintab, output, dvars>>

\* Line 175.
Save ==
    /\ pc = "save"
    /\ output' = <<pixelated_img>>
    /\ stages' = Append(stages, "Saved")
    /\ pc' = "saved"
    /\ UNCHANGED <<pixel_size, color_count, distress_intensity, file, opened, img,
                   original_size, original_has_alpha, current_mode, small_img_base,
                   processed_small_img, final_small_img, distress_state, xintab,
                   yintab, pixelated_img, dvars>>

\* Lines 175 and 181-184: the encoder refuses the image or the write fails.
SaveFails ==
    /\ pc = "save"
    /\ pc' = "failed"
    /\ UNCHANGED <<pixel_size, color_count, distress_intensity, file, opened, img,
                   original_size, original_has_alpha, current_mode, small_img_base,
                   processed_small_img, final_small_img, distress_state, xintab,
                   yintab, pixelated_img, output, stages, dvars>>

Next ==
    \/ Validate
    \/ Open
    \/ OpenFails
    \/ ClassifyAlpha
    \/ Downscale
    \/ QuantizeColors
    \/ QuantizeFails
    \/ SkipQuantize
    \/ DistressEdges
    \/ SkipDistress
    \/ Upscale
    \/ FinalizeMode
    \/ Save
    \/ SaveFails

Spec == Init /\ [][Next]_vars

----------------------------------------------------------------------------
(* apply_distress_to_small_image called on its own: the caller holds the   *)
(* image as object d_arg of the heap and receives the reference d_ret.     *)

PipelineIdle ==
    /\ pixel_size = 1 /\ color_count = <<>> /\ distress_intensity = 0
    /\ file = NoImage /\ pc = "idle" /\ opened = FALSE /\ img = NoImage
    /\ original_size = <<0, 0>> /\ original_has_alpha = FALSE
    /\ current_mode = "none" /\ small_img_base = NoImage
    /\ processed_small_img = NoImage /\ final_small_img = NoImage
    /\ distress_state = "none" /\ xintab = <<>> /\ yintab = <<>>
    /\ pixelated_img = NoImage /\ output = <<>> /\ stages = <<>>

InitDistress ==
    /\ PipelineIdle
    /\ d_pc = "call"
    /\ \E mode \in {"RGB", "RGBA"}, size \in GridSizes, k \in Patterns :
         /\ d_heap = <<InputImage(mode, <<>>, size[1], size[2], k)>>
         /\ d_before = InputImage(mode, <<>>, size[1], size[2], k)
    /\ d_arg = 1
    /\ d_ret = 0
    /\ d_intensity \in CallIntensities
    /\ d_decay \in DecayRates
    /\ d_seed \in Seeds

\* Lines 11-68.
CallDistress ==
    /\ d_pc = "call"
    /\ LET r == apply_distress_to_small_image(d_heap, d_arg, d_intensity, d_decay, d_seed)
       IN /\ d_heap' = r.heap
          /\ d_ret' = r.ret
    /\ d_pc' = "returned"
    /\ UNCHANGED <<pvars, d_arg, d_before, d_intensity, d_decay, d_seed>>

NextDistress == CallDistress

SpecDistress == InitDistress /\ [][NextDistress]_vars

----------------------------------------------------------------------------
(* Properties of pixelate_image (specification Spec) *)

AfterUpscale == pc = "finalize"

Divides(p, n) == n % p = 0

\* The small-image index the block formula x // p names, clamped to the
\* last column (row) of the small image.
BlockIndex(x, p, nsmall) == Min(x \div p, nsmall - 1)

\* The centre of output column x lies in source column sx, boundaries included.
CentreWithin(x, sx, nin, nout) ==
    /\ 2 * nout * sx <= (2 * x + 1) * nin
    /\ (2 * x + 1) * nin <= 2 * nout * (sx + 1)

\* No output column or row has its centre exactly on a boundary of the
\* small image, so the sampled index does not depend on rounding.
NoBoundaryCentre ==
    /\ NearestTies(final_small_img.size[1], original_size[1]) = {}
    /\ NearestTies(final_small_img.size[2], original_size[2]) = {}

C2_ModeMatchesIntent ==
    output # <<>> =>
        /\ output[1].mode \in {"RGB", "RGBA"}
        /\ output[1].mode = "RGBA" <=> (original_has_alpha \/ distress_state = "applied")

PaletteReduced == \E i \in 1 .. Len(stages) : stages[i] = "PaletteReduced"

Distressed == \E i \in 1 .. Len(stages) : stages[i] = "Distressed"

\* The opacity band of the original, downscaled and upscaled on its own.
PlainAlpha(c) ==
    LET rgba == convert(file, "RGBA")
        band == [d \in Coords(file.size) |-> Alpha(rgba, d)]
        small == ResampleBand(band, file.size, SmallSize(file.size, pixel_size))
    IN small[<<xintab[c[1]], yintab[c[2]]>>]

IsFloorAtLeastOne(n, len, p) ==
    /\ n >= 1
    /\ len >= p => (n * p <= len /\ len < (n + 1) * p)
    /\ len < p => n = 1

\* C4: the downscaled image is max(1, floor(W/p)) wide and
\* max(1, floor(H/p)) high, so at least 1 x 1 even when p exceeds W or H.
C4_SmallDimensions ==
    small_img_base # NoImage =>
        /\ IsFloorAtLeastOne(small_img_base.size[1], file.size[1], pixel_size)
        /\ IsFloorAtLeastOne(small_img_base.size[2], file.size[2], pixel_size)
        /\ DOMAIN small_img_base.px = Coords(small_img_base.size)

\* A downscale with a pixel size above the width, and one that leaves a remainder.
C4_Witness ==
    /\ small_img_base # NoImage
    /\ pixel_size > file.size[1]
    /\ small_img_base.size[1] = 1
    /\ file.size[2] > pixel_size
    /\ ~Divides(pixel_size, file.size[2])

\* C5: with pixel_size <= 0 the call ends before the input is opened, no
\* stage runs and nothing is written.
C5_RejectedBeforeOpen ==
    pixel_size <= 0 =>
        /\ pc \in {"validate", "rejected"}
        /\ ~opened
        /\ stages = <<>>
        /\ img = NoImage
        /\ small_img_base = NoImage
        /\ processed_small_img = NoImage
        /\ final_small_img = NoImage
        /\ pixelated_img = NoImage
        /\ distress_state = "none"
        /\ output = <<>>

\* A call with pixel_size 0 that has been rejected.
C5_Witness == pixel_size = 0 /\ pc = "rejected"

\* C6: when the original has an opacity channel the distresser is never
\* called, whatever the intensity; the image that is upscaled is the
\* (optionally palette-reduced) downscaled image, and every written pixel
\* has the opacity of the downscaled pixel it was sampled from.
C6_NoDistressOnTranslucent ==
    original_has_alpha =>
        /\ distress_state = "none"
        /\ ~Distressed
        /\ pc \in {"upscale", "finalize", "save", "saved"} =>
              /\ final_small_img = processed_small_img
              /\ final_small_img.size = small_img_base.size
              /\ \A c \in Coords(small_img_base.size) :
                    Alpha(final_small_img, c) = Alpha(small_img_base, c)
              /\ ~PaletteReduced => final_small_img = small_img_base
        /\ output # <<>> =>
              \A c \in Coords(original_size) :
                 Alpha(output[1], c) = Alpha(small_img_base, <<xintab[c[1]], yintab[c[2]]>>)

\* A translucent original written by a call that asked for distress.
C6_Witness ==
    /\ original_has_alpha
    /\ IntensityInRange(distress_intensity)
    /\ output # <<>>
    /\ \E c \in Coords(original_size) : Alpha(output[1], c) # 0

StageRank(stage) ==
    CASE stage = "Loaded" -> 1
      [] stage = "AlphaClassified" -> 2
      [] stage = "Downscaled" -> 3
      [] stage = "PaletteReduced" -> 4
      [] stage = "Distressed" -> 5
      [] stage = "Upscaled" -> 6
      [] stage = "ModeFinalized" -> 7
      [] stage = "Saved" -> 8

HasStage(name) == \E i \in 1 .. Len(stages) : stages[i] = name

\* C7: the stages happen in the order alpha classification, downscale,
\* optional palette reduction, optional distress, upscale, mode
\* finalization, save; the reduction and the distress act on the downscaled
\* image, the distress on the reduced result, and the save follows the mode
\* finalization.
C7_StageOrder ==
    /\ \A i, j \in 1 .. Len(stages) :
          i < j => StageRank(stages[i]) < StageRank(stages[j])
    /\ output # <<>> =>
          /\ \A name \in {"Loaded", "AlphaClassified", "Downscaled", "Upscaled",
                          "ModeFinalized", "Saved"} : HasStage(name)
          /\ output[1] = pixelated_img
          /\ output[1].mode = current_mode
    /\ HasStage("PaletteReduced") =>
          /\ processed_small_img.size = small_img_base.size
          /\ small_img_base.size = SmallSize(file.size, pixel_size)
    /\ HasStage("Distressed") =>
          /\ final_small_img.size = small_img_base.size
          /\ \A c \in Coords(final_small_img.size) :
                Colour(final_small_img, c) = Colour(processed_small_img, c)
    /\ HasStage("Upscaled") =>
          \A c \in Coords(original_size) :
             Colour(pixelated_img, c) =
                 Colour(processed_small_img, <<xintab[c[1]], yintab[c[2]]>>)

\* A written image that went through both optional stages, the reduction
\* having changed a colour.
C7_Witness ==
    /\ output # <<>>
    /\ HasStage("PaletteReduced")
    /\ HasStage("Distressed")
    /\ distress_state = "applied"
    /\ \E c \in Coords(small_img_base.size) :
          Colour(processed_small_img, c) # Colour(small_img_base, c)

----------------------------------------------------------------------------
(* Properties of apply_distress_to_small_image (specification SpecDistress) *)

Returned == d_pc = "returned"

\* The draw of pixel c is below the probability of pixel c.
DrawnBelow(c) ==
    DrawBelow(Draw(d_seed, c[2] * d_before.size[1] + c[1]),
              AdjustedProbability(d_intensity, EffectiveDecay(d_decay),
                                  DistanceFromEdge(c[1], c[2], d_before.size[1],
                                                   d_before.size[2])))

EntryAlpha(c) == IF d_before.mode = "RGBA" THEN Alpha(d_before, c) ELSE 255

\* C8: for 0 < intensity_percent <= 100 the returned image has the size of
\* the input, every pixel keeps its three colour channels, a pixel whose
\* draw is below its probability has opacity 0, and every other pixel keeps
\* the opacity it had on entry (255 if the input had no opacity channel).
C8_DistressEffect ==
    (Returned /\ IntensityInRange(d_intensity)) =>
        LET out == d_heap[d_ret]
        IN /\ out.mode = "RGBA"
           /\ out.size = d_before.size
           /\ DOMAIN out.px = Coords(d_before.size)
           /\ \A c \in Coords(d_before.size) :
                 /\ Len(out.px[c]) = 4
                 /\ Colour(out, c) = Colour(d_before, c)
                 /\ DrawnBelow(c) => Alpha(out, c) = 0
                 /\ ~DrawnBelow(c) => Alpha(out, c) = EntryAlpha(c)

\* A distressed opaque image with a chipped pixel that is not black and a
\* pixel left opaque.
C8_Witness ==
    /\ Returned
    /\ IntensityInRange(d_intensity)
    /\ d_before.mode = "RGB"
    /\ \E c, d \in Coords(d_before.size) :
          /\ DrawnBelow(c)
          /\ Colour(d_before, c) # <<0, 0, 0>>
          /\ Alpha(d_heap[d_ret], c) = 0
          /\ ~DrawnBelow(d)
          /\ Alpha(d_heap[d_ret], d) = 255

\* The number of rings between pixel c and the border of the grid.
Ring(c, size) ==
    Cardinality({k \in 1 .. size[1] + size[2] :
                    /\ k <= c[1] /\ k <= size[1] - 1 - c[1]
                    /\ k <= c[2] /\ k <= size[2] - 1 - c[2]})

\* The decay rate in force: the argument inside (0, 1], else 0.65.
ClaimedDecay == IF 0 < d_decay[1] /\ d_decay[1] <= d_decay[2] THEN d_decay ELSE <<13, 20>>

\* The probability the distresser uses for pixel c, a fraction.
ProbabilityAt(c) ==
    AdjustedProbability(d_intensity, EffectiveDecay(d_decay),
                        DistanceFromEdge(c[1], c[2], d_before.size[1], d_before.size[2]))

FracEq(a, b) == a[1] * b[2] = b[1] * a[2]

FracLeq(a, b) == a[1] * b[2] <= b[1] * a[2]

FracLess(a, b) == a[1] * b[2] < b[1] * a[2]

====
